---- MODULE Spec2Model ----
(***************************************************************************)
(* A model of the two scripts of the repository:                           *)
(*   - album_mosaic/sort_by_color.py: the grid compositor results_montage  *)
(*   - playlist_tracker/track_new_songs(_oauth).py: the date filter, the   *)
(*     persisted cursor, the batched playlist write and the main loop.     *)
(* Each part has its own specification over the shared variable list; the  *)
(* variables of the other parts stay at their idle values.                 *)
(***************************************************************************)
EXTENDS Integers, Sequences, FiniteSets, TLC

VARIABLES
    \* ---- results_montage (sort_by_color.py) ----
    imageW, imageH,          \* self.imageW, self.imageH (cell size in pixels)
    images_per_main_axis,    \* self.images_per_main_axis
    by_row,                  \* self.by_row
    num_results,             \* the constructor's num_results argument
    montage,                 \* self.montage: [h, w, px] (shape and pixels)
    counter, row, col,       \* self.counter, self.row, self.col
    calls,                   \* history: one record per add_result call
    \* ---- filter_songs_by_date called on its own ----
    tracks, since_date,      \* its arguments
    new_tracks,              \* its return value
    filter_pc,               \* "call" before the call, "done" after it
    \* ---- add_tracks_to_playlist called on its own ----
    track_uris,              \* its argument
    responses,               \* the status code the API answers the n-th POST with
    posts,                   \* the POST requests issued, in order: [uris, status]
    total_added,             \* its return value (OAuth version)
    batch_pc,                \* "call" before the call, "done" after it
    \* ---- the environment of main (track_new_songs_oauth.py) ----
    clock,                   \* the instant, in ticks of UTC
    tz,                      \* the machine's UTC offset, in seconds
    playlists,               \* the service's source playlists: id -> entries
    last_run_file,           \* LAST_RUN_FILE: [exists, last_run] (the JSON object)
    song_log_file,           \* SONG_LOG_FILE: [exists, entries] (the JSON array)
    \* ---- main ----
    pc,                      \* where main is
    last_run,                \* main's local last_run
    idx,                     \* the playlist loop's position (1-based)
    all_new_tracks, log_data,
    fetched,                 \* history: what each playlist read of this run returned
    run_posts,               \* history: this run's POST .../tracks: [playlist, uris, status]
    cursor_write,            \* history: this run's save_last_run_date and what the run loaded
    saved_at,                \* history: the instant of the last save_last_run_date
    runs,                    \* number of finished runs
    runs_with_new,           \* history: number of runs that found a new track
    reported,                \* history: uri -> number of runs that returned it as new
    read_failed,             \* history: the playlists a read of which has failed
    \* ---- get_user_token (track_new_songs_oauth.py) ----
    token_cache_file,        \* TOKEN_CACHE_FILE: [exists, access_token, refresh_token, expires_at]
    issued,                  \* number of access tokens the token endpoint has issued
    token_call,              \* history: the last get_user_token call
    token_pc,                \* "ready" where get_user_token is run, else "off"
    \* ---- the script of sort_by_color.py (lines 127-170) ----
    folder,                  \* the files of FOLDER, in os.listdir order
    IMAGES, filtered_images, \* the script's lists
    colors, sorted_inds,
    placed,                  \* history: the add_result calls: [image, row, col]
    sort_pc,                 \* where the script is
    \* ---- get_dominant_color called on its own ----
    n_clusters, labels,      \* KMeans(n_clusters = k) and clt.fit_predict(image)
    cluster_centers,         \* clt.cluster_centers_
    dominant_color,          \* its return value
    color_pc                 \* "call" before the call, "done" after it

mvars == <<imageW, imageH, images_per_main_axis, by_row, num_results,
           montage, counter, row, col, calls>>

fvars == <<tracks, since_date, new_tracks, filter_pc>>

bvars == <<track_uris, responses, posts, total_added, batch_pc>>

evars == <<clock, tz, playlists, last_run_file, song_log_file>>

rvars_but_pc == <<last_run, idx, all_new_tracks, log_data, fetched, run_posts,
                  cursor_write, saved_at, runs, runs_with_new, reported,
                  read_failed>>

hvars == <<runs_with_new, reported, read_failed>>

rvars == <<pc, rvars_but_pc>>

tvars == <<token_cache_file, issued, token_call, token_pc>>

svars == <<folder, IMAGES, filtered_images, colors, sorted_inds, placed, sort_pc>>

cvars == <<n_clusters, labels, cluster_centers, dominant_color, color_pc>>

pvars == <<svars, cvars>>

vars == <<mvars, fvars, bvars, evars, rvars, tvars, pvars>>

(***************************************************************************)
(* Bounds of the model.                                                    *)
(***************************************************************************)
MaxResults == 4
MaxPerAxis == 3
MaxCellSize == 2
MaxCalls == 6
MaxLen == 3          \* longest track list handed to the filter
MaxSec == 2          \* added_at timestamps range over the seconds 0 .. MaxSec
TicksPerSec == 2     \* sub-second resolution of datetime.now()
MaxUris == 250       \* longest URI list handed to add_tracks_to_playlist

MaxClock == 2        \* the clock runs over the ticks 0 .. MaxClock
MaxTz == 1           \* UTC offsets range over -MaxTz .. MaxTz
MaxTracks == 2       \* tracks added to the source playlists over a behaviour
MaxRuns == 2         \* runs of main over a behaviour
PageSize == 1        \* entries the service returns per page

Null == "None"

\* values of the variables of a part that a specification does not run
IdleMontage ==
    /\ imageW = 0 /\ imageH = 0 /\ images_per_main_axis = 0 /\ by_row = FALSE
    /\ num_results = 0 /\ montage = Null /\ counter = 0 /\ row = 0 /\ col = 0
    /\ calls = <<>>

IdleFilter ==
    /\ tracks = <<>> /\ since_date = 0 /\ new_tracks = <<>> /\ filter_pc = "idle"

IdleBatch ==
    /\ track_uris = <<>> /\ responses = <<>> /\ posts = <<>>
    /\ total_added = 0 /\ batch_pc = "idle"

IdleMain ==
    /\ clock = 0 /\ tz = 0 /\ playlists = <<>>
    /\ last_run_file = Null /\ song_log_file = Null
    /\ pc = "off" /\ last_run = 0 /\ idx = 0 /\ all_new_tracks = <<>>
    /\ log_data = <<>> /\ fetched = <<>> /\ run_posts = <<>>
    /\ cursor_write = Null /\ saved_at = 0 /\ runs = 0
    /\ runs_with_new = 0 /\ reported = <<>> /\ read_failed = {}

IdleToken ==
    /\ token_cache_file = Null /\ issued = 0 /\ token_call = Null
    /\ token_pc = "off"

IdleSort ==
    /\ folder = <<>> /\ IMAGES = <<>> /\ filtered_images = <<>> /\ colors = <<>>
    /\ sorted_inds = <<>> /\ placed = <<>> /\ sort_pc = "off"

IdleColor ==
    /\ n_clusters = 0 /\ labels = <<>> /\ cluster_centers = <<>> /\ dominant_color = <<>>
    /\ color_pc = "off"

Min(a, b) == IF a < b THEN a ELSE b

(***************************************************************************)
(* results_montage.__init__                                                *)
(***************************************************************************)
\* -(-num_results // images_per_main_axis): Python floor division
num_main_axis_floor(n, p) == n \div p

num_main_axis(n, p) == -((0 - n) \div p)

\* np.zeros(shape): every pixel 0 (no image)
np_zeros(h, w) ==
    [h |-> h, w |-> w, px |-> [yx \in (0 .. h - 1) \X (0 .. w - 1) |-> 0]]

results_montage_init(W, H, P, N, by) ==
    /\ imageW = W
    /\ imageH = H
    /\ images_per_main_axis = P
    /\ by_row = by
    /\ num_results = N
    /\ montage = IF by
                 THEN np_zeros(num_main_axis(N, P) * W, Min(P, N) * H)
                 ELSE np_zeros(Min(P, N) * W, num_main_axis(N, P) * H)
    /\ counter = 0
    /\ row = 0
    /\ col = 0
    /\ calls = <<>>

(***************************************************************************)
(* results_montage.add_result                                              *)
(***************************************************************************)
\* lines 47-54 with the column (resp. row) not reset on a wrap
cursor_no_reset(by, cnt, P, r, c) ==
    IF cnt # 0 /\ cnt % P = 0
    THEN IF by THEN [row |-> r + 1, col |-> c, wrapped |-> TRUE]
               ELSE [row |-> r, col |-> c + 1, wrapped |-> TRUE]
    ELSE [row |-> r, col |-> c, wrapped |-> FALSE]

\* lines 47-54 without the counter != 0 test
cursor_wrap_at_zero(by, cnt, P, r, c) ==
    IF cnt % P = 0
    THEN IF by THEN [row |-> r + 1, col |-> 0, wrapped |-> TRUE]
               ELSE [row |-> 0, col |-> c + 1, wrapped |-> TRUE]
    ELSE [row |-> r, col |-> c, wrapped |-> FALSE]

\* lines 47-54: the cursor the image of this call is written at
cursor_wrap(by, cnt, P, r, c) ==
    IF cnt # 0 /\ cnt % P = 0
    THEN IF by THEN [row |-> r + 1, col |-> 0, wrapped |-> TRUE]
               ELSE [row |-> 0, col |-> c + 1, wrapped |-> TRUE]
    ELSE [row |-> r, col |-> c, wrapped |-> FALSE]

\* a numpy basic slice start:end over an axis of length n is clipped to it
np_slice(start, end, n) == {i \in start .. end - 1 : i < n}

\* numpy broadcasting of a source axis onto a target axis: equal lengths, or
\* a source axis of length 1 (which stretches to any length, 0 included)
np_broadcasts(src, dst) == src = dst \/ src = 1

\* line 60: self.montage[startY:endY, startX:endX] = image, where image has
\* been resized to imageW rows by imageH columns (line 57)
slice_assign_ok(ys, xs) ==
    /\ np_broadcasts(imageW, Cardinality(ys))
    /\ np_broadcasts(imageH, Cardinality(xs))

\* add_result(image) with text=None and highlight=False, as the script calls it
add_result(image) ==
    LET cur == cursor_wrap(by_row, counter, images_per_main_axis, row, col)
        startY == cur.row * imageW
        endY == (cur.row + 1) * imageW
        startX == cur.col * imageH
        endX == (cur.col + 1) * imageH
        ys == np_slice(startY, endY, montage.h)
        xs == np_slice(startX, endX, montage.w)
        ok == slice_assign_ok(ys, xs)
        rec == [image |-> image, counter |-> counter, row |-> cur.row,
                col |-> cur.col, wrapped |-> cur.wrapped,
                startY |-> startY, endY |-> endY,
                startX |-> startX, endX |-> endX,
                written |-> IF ok THEN ys \X xs ELSE {},
                raised |-> ~ok]
    IN /\ calls' = Append(calls, rec)
       /\ IF ok
          THEN /\ montage' = [montage EXCEPT !.px =
                     [yx \in DOMAIN montage.px |->
                         IF yx \in ys \X xs THEN image ELSE montage.px[yx]]]
               /\ row' = IF by_row THEN cur.row ELSE cur.row + 1
               /\ col' = IF by_row THEN cur.col + 1 ELSE cur.col
               /\ counter' = counter + 1
          ELSE \* ValueError raised at line 60: lines 47-54 have already run
               /\ montage' = montage
               /\ row' = cur.row
               /\ col' = cur.col
               /\ counter' = counter
       /\ UNCHANGED <<imageW, imageH, images_per_main_axis, by_row, num_results>>
       /\ UNCHANGED <<fvars, bvars, evars, rvars, tvars, pvars>>

\* the caller presents images one after the other; image ids are 1, 2, ...
AddResult ==
    /\ Len(calls) < MaxCalls
    /\ add_result(Len(calls) + 1)

InitMontage ==
    /\ \E W \in 1 .. MaxCellSize, H \in 1 .. MaxCellSize,
          P \in 1 .. MaxPerAxis, N \in 1 .. MaxResults, by \in BOOLEAN :
           results_montage_init(W, H, P, N, by)
    /\ IdleFilter
    /\ IdleBatch
    /\ IdleMain
    /\ IdleToken
    /\ IdleSort
    /\ IdleColor

NextMontage == AddResult

SpecMontage == InitMontage /\ [][NextMontage]_vars

(***************************************************************************)
(* Claims about results_montage                                            *)
(***************************************************************************)
\* ceil(n / p), found by search rather than by the code's negated floor
Ceil(n, p) == CHOOSE c \in 0 .. n : c * p >= n /\ (c - 1) * p < n

Rect(c) == (c.startY .. c.endY - 1) \X (c.startX .. c.endX - 1)

\* C1 (as stated): the canvas holds ceil(N/P) cells along the primary axis
\* and P cells along the other axis, for every N >= 1 and P >= 1, also
\* when N < P.
C1_CanvasIsCeilTimesP ==
    LET c == Ceil(num_results, images_per_main_axis)
    IN IF by_row
       THEN /\ montage.h = c * imageW
            /\ montage.w = images_per_main_axis * imageH
       ELSE /\ montage.h = images_per_main_axis * imageW
            /\ montage.w = c * imageH

\* C1 (amended): the canvas holds ceil(N/P) cells along the primary axis and
\* min(P, N) cells along the other axis; that is ceil(N/P) * P cells exactly
\* when N >= P, and N cells when N < P.
C1_CanvasIsCeilTimesMin ==
    LET c == Ceil(num_results, images_per_main_axis)
        m == IF num_results < images_per_main_axis
             THEN num_results ELSE images_per_main_axis
        cellPx == imageW * imageH
    IN /\ IF by_row
          THEN montage.h = c * imageW /\ montage.w = m * imageH
          ELSE montage.h = m * imageW /\ montage.w = c * imageH
       /\ Cardinality(DOMAIN montage.px) = c * m * cellPx
       /\ num_results >= images_per_main_axis
            => Cardinality(DOMAIN montage.px) = c * images_per_main_axis * cellPx
       /\ num_results < images_per_main_axis
            => Cardinality(DOMAIN montage.px) = num_results * cellPx

C1_Witness ==
    /\ num_results = 2
    /\ images_per_main_axis = 3
    /\ by_row
    /\ imageW = 2
    /\ montage.h = 2
    /\ montage.w = 2 * imageH

\* C2: among the first N add_result calls on a montage built for N results,
\* every call writes one whole cell inside the canvas, no two calls use the
\* same (row, col), and no cell written is overwritten by a later one.
C2_CellsUniqueAndInside ==
    \A i \in 1 .. Len(calls) :
        i <= num_results =>
            /\ ~calls[i].raised
            /\ calls[i].written = Rect(calls[i])
            /\ calls[i].written \subseteq DOMAIN montage.px
            /\ \A yx \in calls[i].written : montage.px[yx] = calls[i].image
            /\ \A j \in 1 .. i - 1 :
                   /\ <<calls[j].row, calls[j].col>> # <<calls[i].row, calls[i].col>>
                   /\ calls[j].written \cap calls[i].written = {}

C2_Witness ==
    /\ num_results = 4
    /\ images_per_main_axis = 3
    /\ ~by_row
    /\ Len(calls) = 4
    /\ calls[4].row = 0
    /\ calls[4].col = 1
    /\ montage.px[<<0, imageH>>] = 4

\* C3: the k-th image passed to add_result (k from 0) is written to cell
\* (k div P, k mod P) when by_row and to (k mod P, k div P) otherwise, and
\* the cursor wraps exactly when k is a positive multiple of P; every one of
\* the first N images is written.
C3_CellOfKthImage ==
    \A i \in 1 .. Len(calls) :
        LET k == i - 1
            P == images_per_main_axis
        IN /\ i <= num_results => calls[i].written # {}
           /\ calls[i].written # {} =>
                /\ calls[i].image = i
                /\ calls[i].row = IF by_row THEN k \div P ELSE k % P
                /\ calls[i].col = IF by_row THEN k % P ELSE k \div P
                /\ calls[i].written = Rect(calls[i])
                /\ calls[i].startY = calls[i].row * imageW
                /\ calls[i].startX = calls[i].col * imageH
                /\ calls[i].wrapped <=> (k > 0 /\ k % P = 0)

C3_Witness ==
    /\ num_results = 4
    /\ images_per_main_axis = 2
    /\ by_row
    /\ Len(calls) = 4
    /\ [i \in 1 .. 4 |-> <<calls[i].row, calls[i].col>>]
         = << <<0, 0>>, <<0, 1>>, <<1, 0>>, <<1, 1>> >>
    /\ \A i \in 1 .. 4 : calls[i].written # {}

\* C4: an add_result call made when the number of images already placed
\* equals the capacity ceil(N/P) * P fails with an error and writes nothing.
C4_FailsAtCapacity ==
    \A i \in 1 .. Len(calls) :
        calls[i].counter = Ceil(num_results, images_per_main_axis)
                             * images_per_main_axis
            => calls[i].raised /\ calls[i].written = {}

(***************************************************************************)
(* Dates. A naive datetime is a number of ticks (TicksPerSec to the        *)
(* second); the text forms are modelled by what they keep.                 *)
(***************************************************************************)
\* datetime.strptime(s, '%Y-%m-%dT%H:%M:%SZ'): the API's added_at text holds
\* whole seconds of UTC; the literal Z is matched and dropped, so the result
\* is a naive datetime with the UTC wall-clock reading
strptime(added_at_str) == added_at_str.sec * TicksPerSec

\* datetime.isoformat(): 'YYYY-MM-DDTHH:MM:SS' when the microsecond field is
\* 0, else 'YYYY-MM-DDTHH:MM:SS.ffffff'
isoformat(dt) ==
    IF dt % TicksPerSec = 0
    THEN <<dt \div TicksPerSec>>
    ELSE <<dt \div TicksPerSec, dt % TicksPerSec>>

\* datetime.fromisoformat(): the fraction is optional
fromisoformat(str) ==
    IF Len(str) = 1 THEN str[1] * TicksPerSec ELSE str[1] * TicksPerSec + str[2]

(***************************************************************************)
(* filter_songs_by_date                                                    *)
(***************************************************************************)
\* line 191 (75) with >= for >
added_on_or_after(added_at, since) == added_at >= since

\* line 191 (75): if added_at > since_date
added_after(added_at, since) == added_at > since

\* the loop of lines 186-192 (70-76) over the rest of the list
RECURSIVE filter_loop(_, _, _)
filter_loop(rest, since, acc) ==
    IF rest = <<>> THEN acc
    ELSE LET item == Head(rest)
         IN IF item.track = Null
            THEN filter_loop(Tail(rest), since, acc)
            ELSE IF added_after(strptime(item.added_at), since)
                 THEN filter_loop(Tail(rest), since, Append(acc, item))
                 ELSE filter_loop(Tail(rest), since, acc)

filter_songs_by_date(ts, since) == filter_loop(ts, since, <<>>)

\* playlist entries: track is None or a track object (its uri), added_at the
\* API's timestamp text
Items == [track : {Null, "uri1", "uri2"}, added_at : [sec : 0 .. MaxSec]]

RECURSIVE ListsUpTo(_, _)
ListsUpTo(S, n) ==
    IF n = 0 THEN {<<>>}
    ELSE LET shorter == ListsUpTo(S, n - 1)
         IN shorter \cup {Append(l, x) : l \in {m \in shorter : Len(m) = n - 1}, x \in S}

InitFilter ==
    /\ tracks \in ListsUpTo(Items, MaxLen)
    /\ since_date \in 0 .. (MaxSec + 1) * TicksPerSec - 1
    /\ new_tracks = <<>>
    /\ filter_pc = "call"
    /\ IdleMontage
    /\ IdleBatch
    /\ IdleMain
    /\ IdleToken
    /\ IdleSort
    /\ IdleColor

FilterSongs ==
    /\ filter_pc = "call"
    /\ new_tracks' = filter_songs_by_date(tracks, since_date)
    /\ filter_pc' = "done"
    /\ UNCHANGED <<tracks, since_date, mvars, bvars, evars, rvars, tvars, pvars>>

NextFilter == FilterSongs

SpecFilter == InitFilter /\ [][NextFilter]_vars

\* C5 (as stated): filter_songs_by_date returns exactly the entries whose
\* added_at is strictly greater than the cursor, in their original order.
NewerThanCursor(item) == strptime(item.added_at) > since_date

C5_ExactlyTheNewerEntries ==
    filter_pc = "done" => new_tracks = SelectSeq(tracks, NewerThanCursor)

\* C5 (amended): filter_songs_by_date returns exactly the entries whose track
\* is not null and whose added_at is strictly greater than the cursor, in
\* their original order.
NonNullAndNewer(item) ==
    item.track # Null /\ item.added_at.sec * TicksPerSec > since_date

C5_ExactlyTheNewerNonNullEntries ==
    filter_pc = "done" => new_tracks = SelectSeq(tracks, NonNullAndNewer)

C5_Witness ==
    /\ filter_pc = "done"
    /\ Len(tracks) = 3
    /\ tracks[1].track # Null /\ tracks[1].added_at.sec = 0
    /\ tracks[2].track = Null /\ tracks[2].added_at.sec = 1
    /\ tracks[3].added_at.sec = 2
    /\ since_date = 1
    /\ new_tracks = <<tracks[3]>>

(***************************************************************************)
(* add_tracks_to_playlist                                                  *)
(***************************************************************************)
batch_size == 100

\* the status codes the API answers a request with
StatusCodes == {200, 201, 299, 403}

\* x in range(a, b)
in_range(x, a, b) == a <= x /\ x < b

\* lst[a:b] with the end clipped to the list
py_slice(lst, a, b) == SubSeq(lst, a + 1, Min(b, Len(lst)))

\* lines 276-277 with the failed batch ending the loop
next_i_stop_on_failure(i, status, n) ==
    IF in_range(status, 200, 299) THEN i + batch_size ELSE n

\* the step of range(0, len(track_uris), batch_size): whatever the response
next_i(i, status, n) == i + batch_size

\* the loop of lines 271-281 from index i on; acc is [posts, total_added]
RECURSIVE add_tracks_loop(_, _, _, _)
add_tracks_loop(uris, resp, i, acc) ==
    IF i >= Len(uris) THEN acc
    ELSE LET batch == py_slice(uris, i, i + batch_size)
             status == resp[Len(acc.posts) + 1]
             sent == Append(acc.posts, [uris |-> batch, status |-> status])
         IN add_tracks_loop(uris, resp, next_i(i, status, Len(uris)),
                [posts |-> sent,
                 total_added |-> IF in_range(status, 200, 299)
                                 THEN acc.total_added + Len(batch)
                                 ELSE acc.total_added])

add_tracks_to_playlist(uris, resp) ==
    add_tracks_loop(uris, resp, 0, [posts |-> <<>>, total_added |-> 0])

InitBatch ==
    /\ \E n \in 0 .. MaxUris : track_uris = [k \in 1 .. n |-> k]
    /\ responses \in [1 .. (MaxUris \div batch_size) + 1 -> StatusCodes]
    /\ posts = <<>>
    /\ total_added = 0
    /\ batch_pc = "call"
    /\ IdleMontage
    /\ IdleFilter
    /\ IdleMain
    /\ IdleToken
    /\ IdleSort
    /\ IdleColor

AddTracks ==
    /\ batch_pc = "call"
    /\ LET r == add_tracks_to_playlist(track_uris, responses)
       IN /\ posts' = r.posts
          /\ total_added' = r.total_added
    /\ batch_pc' = "done"
    /\ UNCHANGED <<track_uris, responses, mvars, fvars, evars, rvars, tvars, pvars>>

NextBatch == AddTracks

SpecBatch == InitBatch /\ [][NextBatch]_vars

RECURSIVE Concat(_)
Concat(ss) == IF ss = <<>> THEN <<>> ELSE Head(ss) \o Concat(Tail(ss))

RECURSIVE SumSeq(_)
SumSeq(ns) == IF ns = <<>> THEN 0 ELSE Head(ns) + SumSeq(Tail(ns))

\* C8: for n URIs exactly ceil(n/100) POSTs are issued whatever the
\* responses; each carries at most 100 URIs, each but the last exactly 100,
\* and the batches in call order concatenate to the input list.
C8_BatchesPartitionTheInput ==
    batch_pc = "done" =>
        /\ Len(posts) = Ceil(Len(track_uris), 100)
        /\ \A j \in 1 .. Len(posts) :
               /\ Len(posts[j].uris) <= 100
               /\ Len(posts[j].uris) >= 1
               /\ j < Len(posts) => Len(posts[j].uris) = 100
               /\ posts[j].status = responses[j]
        /\ Concat([j \in 1 .. Len(posts) |-> posts[j].uris]) = track_uris

C8_Witness ==
    /\ batch_pc = "done"
    /\ Len(track_uris) = 250
    /\ [j \in 1 .. Len(posts) |-> Len(posts[j].uris)] = <<100, 100, 50>>
    /\ [j \in 1 .. Len(posts) |-> posts[j].status] = <<403, 200, 403>>

\* C9: a failed batch neither undoes nor re-sends an earlier batch and does
\* not stop the later ones, and the returned count is the sum of the sizes of
\* exactly those batches whose response was 2xx (200 to 299).
C9_CountIsSumOf2xxBatches ==
    batch_pc = "done" =>
        /\ Concat([j \in 1 .. Len(posts) |-> posts[j].uris]) = track_uris
        /\ total_added =
             SumSeq([j \in 1 .. Len(posts) |->
                        IF posts[j].status >= 200 /\ posts[j].status <= 299
                        THEN Len(posts[j].uris) ELSE 0])

(***************************************************************************)
(* main (track_new_songs_oauth.py; track_new_songs.py has the same loop    *)
(* and the same cursor handling)                                           *)
(***************************************************************************)
\* config['source_playlists']; a link that is a bare id is its own id
\* (extract_playlist_id)
PLAYLIST_LINKS == <<"p1", "p2">>

\* config.json's create_new_playlist and target_playlist_id, as load_config
\* returns them
Configs == {[create_new_playlist |-> TRUE, target_playlist_id |-> Null],
            [create_new_playlist |-> FALSE, target_playlist_id |-> "target"],
            [create_new_playlist |-> FALSE, target_playlist_id |-> Null]}

\* datetime.datetime.now(): the naive local wall-clock reading
now == clock + tz * TicksPerSec

\* line 201 (86) with the 30 days added
load_default_in_future == now + 30 * 86400 * TicksPerSec

\* line 201 (86): datetime.now() - timedelta(days=30)
load_default == now - 30 * 86400 * TicksPerSec

\* load_last_run_date()
load_last_run_date ==
    IF last_run_file.exists THEN fromisoformat(last_run_file.last_run)
    ELSE load_default

\* save_last_run_date(): the file's new content
save_last_run_date == [exists |-> TRUE, last_run |-> isoformat(now)]

\* the follow-up page requests a whole read of the entries takes (the first
\* response carries the first page and the next link)
follow_ups(entries) ==
    IF Len(entries) = 0 THEN 0
    ELSE (Len(entries) + PageSize - 1) \div PageSize - 1

\* get_playlist_with_dates: status is the answer to the first request,
\* follow_ok the number of follow-up page requests answered 200 and
\* follow_status the answer to the one after them, if the read gets that far
\* (the loop then breaks and the pages read so far are returned).
\* last_status is the answer to the last request made
get_playlist_with_dates(entries, status, follow_ok, follow_status) ==
    IF status # 200
    THEN [raised |-> TRUE, tracks |-> <<>>, last_status |-> status]
    ELSE [raised |-> FALSE,
          tracks |-> SubSeq(entries, 1, Min(Len(entries), PageSize * (1 + follow_ok))),
          last_status |-> IF follow_ok < follow_ups(entries)
                          THEN follow_status ELSE 200]

\* get_track_info (name and artist go with the uri)
get_track_info(item) == [uri |-> item.track, added_at |-> item.added_at]

\* get_track_uri
get_track_uri(item) == item.track

\* lines 371-372 (206-207) with the exception ending the loop
after_error_abort(i) == Len(PLAYLIST_LINKS) + 1

\* lines 371-372 (206-207): the exception is printed and the loop goes on
after_error(i) == i + 1

\* lines 336-344: get the cursor and start the loop. The authentication of
\* lines 331-334 (GetUserToken below) comes first; it either ends the process
\* before anything here has changed or hands over the value the requests
\* below are sent with (their status codes are the service's choice)
MainStart ==
    /\ pc = "idle"
    /\ runs < MaxRuns
    /\ last_run' = load_last_run_date
    /\ all_new_tracks' = <<>>
    /\ log_data' = <<>>
    /\ fetched' = <<>>
    /\ run_posts' = <<>>
    /\ idx' = 1
    /\ pc' = "playlists"
    /\ UNCHANGED <<cursor_write, saved_at, runs, hvars, evars, mvars, fvars, bvars,
                   tvars, pvars>>

\* lines 346-372: one iteration of the loop over PLAYLIST_LINKS
ProcessPlaylist ==
    /\ pc = "playlists"
    /\ idx <= Len(PLAYLIST_LINKS)
    /\ \E status \in StatusCodes :
       \E follow_ok \in IF status = 200
                         THEN 0 .. follow_ups(playlists[PLAYLIST_LINKS[idx]])
                         ELSE {0} :
       \E follow_status \in IF status = 200
                                 /\ follow_ok < follow_ups(playlists[PLAYLIST_LINKS[idx]])
                             THEN StatusCodes \ {200}
                             ELSE {200} :
        LET playlist_id == PLAYLIST_LINKS[idx]
            r == get_playlist_with_dates(playlists[playlist_id], status, follow_ok,
                                         follow_status)
            found == filter_songs_by_date(r.tracks, last_run)
        IN /\ fetched' = Append(fetched, [playlist_id |-> playlist_id,
                                          raised |-> r.raised, tracks |-> r.tracks,
                                          last_status |-> r.last_status])
           /\ read_failed' = IF r.last_status # 200
                              THEN read_failed \cup {playlist_id}
                              ELSE read_failed
           /\ reported' = [u \in DOMAIN reported |->
                              IF \E k \in 1 .. Len(found) : found[k].track = u
                              THEN reported[u] + 1 ELSE reported[u]]
           /\ IF r.raised
              THEN /\ idx' = after_error(idx)
                   /\ UNCHANGED <<all_new_tracks, log_data>>
              ELSE /\ idx' = idx + 1
                   /\ IF found # <<>>
                      THEN /\ log_data' = Append(log_data,
                                [playlist_id |-> playlist_id,
                                 playlist_name |-> playlist_id,
                                 start_index |-> Len(all_new_tracks),
                                 count |-> Len(found),
                                 end_index |-> Len(all_new_tracks) + Len(found),
                                 tracks |-> [k \in 1 .. Len(found) |->
                                                get_track_info(found[k])]])
                           /\ all_new_tracks' = all_new_tracks \o found
                      ELSE UNCHANGED <<all_new_tracks, log_data>>
    /\ UNCHANGED <<pc, last_run, run_posts, cursor_write, saved_at, runs,
                   runs_with_new, evars,
                   mvars, fvars, bvars,
                   tvars, pvars>>

\* lines 287-290 (133-136) with the existing file not read
existing_log_dropped == <<>>

\* lines 287-290 (133-136): the log read back, [] when there is no file
existing_log == IF song_log_file.exists THEN song_log_file.entries ELSE <<>>

\* save_song_log(log_data): the file's new content
save_song_log(data) ==
    [exists |-> TRUE,
     entries |-> Append(existing_log,
                        [timestamp |-> isoformat(now), playlists |-> data])]

\* lines 374-390: the loop is over; the summary is printed and the log saved
SaveLog ==
    /\ pc = "playlists"
    /\ idx > Len(PLAYLIST_LINKS)
    /\ song_log_file' = IF log_data # <<>> THEN save_song_log(log_data)
                        ELSE song_log_file
    /\ runs_with_new' = IF all_new_tracks # <<>> THEN runs_with_new + 1
                        ELSE runs_with_new
    /\ pc' = "add"
    /\ UNCHANGED <<clock, tz, playlists, last_run_file, last_run, idx,
                   all_new_tracks, log_data, fetched, run_posts, cursor_write,
                   saved_at, runs, reported, read_failed,
                   mvars, fvars, bvars,
                   tvars, pvars>>

\* lines 399-426: the playlist to add to, or None. user_status answers GET /me
\* (get_current_user) and create_status POST /users/{id}/playlists
\* (create_playlist); either failing raises, and the except leaves None
target_of(cfg, user_status, create_status) ==
    IF cfg.create_new_playlist
    THEN IF user_status # 200 THEN Null
         ELSE IF ~in_range(create_status, 200, 299) THEN Null
         ELSE "created"
    ELSE cfg.target_playlist_id

\* lines 392-439; the configuration is the one load_config read at line 313
AddToPlaylist ==
    /\ pc = "add"
    /\ \E cfg \in Configs :
       \E user_status \in IF all_new_tracks # <<>> /\ cfg.create_new_playlist
                           THEN StatusCodes ELSE {200} :
       \E create_status \in IF all_new_tracks # <<>> /\ cfg.create_new_playlist
                                /\ user_status = 200
                             THEN StatusCodes ELSE {200} :
       \E resp \in [1 .. 1 -> IF all_new_tracks # <<>> THEN StatusCodes ELSE {200}] :
        LET uris == [k \in 1 .. Len(all_new_tracks) |-> get_track_uri(all_new_tracks[k])]
            playlist_id == target_of(cfg, user_status, create_status)
            r == add_tracks_to_playlist(uris, resp)
        IN run_posts' =
              IF all_new_tracks # <<>> /\ playlist_id # Null
              THEN [k \in 1 .. Len(r.posts) |->
                       [playlist |-> playlist_id, uris |-> r.posts[k].uris,
                        status |-> r.posts[k].status]]
              ELSE <<>>
    /\ pc' = "save"
    /\ UNCHANGED <<evars, last_run, idx, all_new_tracks, log_data, fetched,
                   cursor_write, saved_at, runs, hvars, mvars, fvars, bvars,
                   tvars, pvars>>

\* lines 441-443 (243-245)
SaveLastRun ==
    /\ pc = "save"
    /\ last_run_file' = save_last_run_date
    /\ cursor_write' = [run |-> runs + 1,
                        had_file |-> last_run_file.exists,
                        prev |-> IF last_run_file.exists
                                 THEN fromisoformat(last_run_file.last_run)
                                 ELSE 0,
                        loaded |-> last_run,
                        written |-> fromisoformat(save_last_run_date.last_run),
                        at |-> clock]
    /\ saved_at' = clock
    /\ runs' = runs + 1
    /\ pc' = "done"
    /\ UNCHANGED <<clock, tz, playlists, song_log_file,
                   last_run, idx, all_new_tracks, log_data, fetched, run_posts,
                   hvars, mvars, fvars, bvars,
                   tvars, pvars>>

\* the values main's locals (and the history of the run) have outside a run
NoRun ==
    /\ last_run = 0
    /\ idx = 0
    /\ all_new_tracks = <<>>
    /\ log_data = <<>>
    /\ fetched = <<>>
    /\ run_posts = <<>>
    /\ cursor_write = [run |-> 0, had_file |-> FALSE, prev |-> 0, loaded |-> 0,
                       written |-> 0, at |-> 0]

\* lines 445-450: main returns and the process ends; its locals are gone
MainReturn ==
    /\ pc = "done"
    /\ pc' = "idle"
    /\ last_run' = 0
    /\ idx' = 0
    /\ all_new_tracks' = <<>>
    /\ log_data' = <<>>
    /\ fetched' = <<>>
    /\ run_posts' = <<>>
    /\ cursor_write' = [run |-> 0, had_file |-> FALSE, prev |-> 0, loaded |-> 0,
                        written |-> 0, at |-> 0]
    /\ UNCHANGED <<saved_at, runs, hvars, evars, mvars, fvars, bvars,
                   tvars, pvars>>

\* time passes
Tick ==
    /\ pc # "off" \/ token_pc # "off"
    /\ clock < MaxClock
    /\ clock' = clock + 1
    /\ UNCHANGED <<tz, playlists, last_run_file, song_log_file,
                   rvars, mvars, fvars, bvars,
                   tvars, pvars>>

\* the tracks of the service that get added to the playlists
TrackUris == <<"uri1", "uri2", "uri3", "uri4">>

NumTracks == Len(playlists["p1"]) + Len(playlists["p2"])

\* somebody adds an entry to a source playlist; the service stamps it with
\* the UTC second (added_at); tick, the instant itself, is history
AddTrack ==
    /\ pc # "off"
    /\ NumTracks < MaxTracks
    /\ NumTracks < Len(TrackUris)
    /\ \E p \in {"p1", "p2"}, isnull \in BOOLEAN :
         playlists' = [playlists EXCEPT ![p] = Append(@,
            [track |-> IF isnull THEN Null ELSE TrackUris[NumTracks + 1],
             added_at |-> [sec |-> clock \div TicksPerSec],
             tick |-> clock])]
    /\ UNCHANGED <<clock, tz, last_run_file, song_log_file,
                   rvars, mvars, fvars, bvars,
                   tvars, pvars>>

InitMain ==
    /\ clock = 0
    /\ tz \in -MaxTz .. MaxTz
    /\ playlists = [p \in {"p1", "p2"} |-> <<>>]
    /\ last_run_file = [exists |-> FALSE, last_run |-> <<>>]
    /\ song_log_file = [exists |-> FALSE, entries |-> <<>>]
    /\ pc = "idle"
    /\ NoRun
    /\ saved_at = 0
    /\ runs = 0
    /\ runs_with_new = 0
    /\ reported = [u \in {TrackUris[k] : k \in 1 .. Len(TrackUris)} |-> 0]
    /\ read_failed = {}
    /\ IdleMontage
    /\ IdleFilter
    /\ IdleBatch
    /\ IdleToken
    /\ IdleSort
    /\ IdleColor

NextMain ==
    \/ MainStart
    \/ ProcessPlaylist
    \/ SaveLog
    \/ AddToPlaylist
    \/ SaveLastRun
    \/ MainReturn
    \/ Tick
    \/ AddTrack

SpecMain == InitMain /\ [][NextMain]_vars

\* C6: with the cursor being the time save_last_run_date persisted, read back
\* by load_last_run_date, no track added before that moment is returned by
\* filter_songs_by_date.
C6_NothingAddedBeforeTheSaveIsNew ==
    (pc \in {"playlists", "add", "save"} /\ last_run_file.exists) =>
        \A k \in 1 .. Len(all_new_tracks) :
            ~(all_new_tracks[k].tick < saved_at)

\* C7: the timestamp a run writes to the cursor file is greater than or equal
\* to the cursor that run loaded, and so to the value the file held before;
\* the file reads back as the local time of the save.
C7_CursorNeverMovesBack ==
    cursor_write.run >= 1 =>
        /\ cursor_write.written >= cursor_write.loaded
        /\ cursor_write.had_file =>
               /\ cursor_write.loaded = cursor_write.prev
               /\ cursor_write.written >= cursor_write.prev
        /\ last_run_file.exists
        /\ fromisoformat(last_run_file.last_run) = cursor_write.written
        /\ cursor_write.written = cursor_write.at + tz * TicksPerSec
        /\ saved_at = cursor_write.at

C7_Witness ==
    /\ cursor_write.run = 2
    /\ cursor_write.had_file
    /\ cursor_write.written > cursor_write.loaded
    /\ cursor_write.written % TicksPerSec # 0
    /\ pc = "done"

\* C10: a playlist whose read fails is caught; every playlist of the list is
\* still read; the failed one adds nothing to log_data and all_new_tracks,
\* and what the others add is what a run over the list without the failed
\* playlists adds.
ReadOk(f) == ~f.raised

OkReads == SelectSeq(fetched, ReadOk)

NewAfterLastRun(item) ==
    item.track # Null /\ item.added_at.sec * TicksPerSec > last_run

NewOf(f) == SelectSeq(f.tracks, NewAfterLastRun)

HasNew(f) == NewOf(f) # <<>>

NewBefore(i) == SumSeq([j \in 1 .. i - 1 |-> Len(NewOf(OkReads[j]))])

ExpectedEntry(i) ==
    LET f == OkReads[i]
    IN [playlist_id |-> f.playlist_id,
        playlist_name |-> f.playlist_id,
        start_index |-> NewBefore(i),
        count |-> Len(NewOf(f)),
        end_index |-> NewBefore(i) + Len(NewOf(f)),
        tracks |-> [k \in 1 .. Len(NewOf(f)) |->
                       [uri |-> NewOf(f)[k].track, added_at |-> NewOf(f)[k].added_at]]]

RECURSIVE ExpectedLog(_)
ExpectedLog(i) ==
    IF i = 0 THEN <<>>
    ELSE IF HasNew(OkReads[i]) THEN Append(ExpectedLog(i - 1), ExpectedEntry(i))
         ELSE ExpectedLog(i - 1)

C10_FailedPlaylistIsSkippedOnly ==
    pc \in {"playlists", "add", "save"} =>
        /\ Len(fetched) = idx - 1
        /\ \A i \in 1 .. Len(fetched) : fetched[i].playlist_id = PLAYLIST_LINKS[i]
        /\ pc # "playlists" => Len(fetched) = Len(PLAYLIST_LINKS)
        /\ all_new_tracks = Concat([i \in 1 .. Len(OkReads) |-> NewOf(OkReads[i])])
        /\ log_data = ExpectedLog(Len(OkReads))
        /\ \A i \in 1 .. Len(fetched) :
               fetched[i].raised =>
                   \A e \in 1 .. Len(log_data) :
                       log_data[e].playlist_id # fetched[i].playlist_id

C10_Witness ==
    /\ pc = "add"
    /\ fetched[1].raised
    /\ ~fetched[2].raised
    /\ \E k \in 1 .. Len(playlists["p1"]) :
           NewAfterLastRun(playlists["p1"][k])
    /\ Len(all_new_tracks) = 1
    /\ Len(log_data) = 1
    /\ log_data[1].playlist_id = "p2"
    /\ log_data[1].start_index = 0

\* C11: a non-2xx response to any request of a playlist read, the first one
\* or a follow-up page request, is fatal for that playlist: the read returns
\* no track list, and no track of the playlist is filtered, logged or added
\* in that run.
EntriesOf(p) == {playlists[p][k] : k \in 1 .. Len(playlists[p])}

UrisOf(p) == {e.track : e \in EntriesOf(p)} \ {Null}

C11_NonOkResponseIsFatal ==
    \A i \in 1 .. Len(fetched) :
        ~(fetched[i].last_status >= 200 /\ fetched[i].last_status <= 299) =>
            /\ fetched[i].raised
            /\ fetched[i].tracks = <<>>
            /\ \A k \in 1 .. Len(all_new_tracks) :
                   all_new_tracks[k] \notin EntriesOf(fetched[i].playlist_id)
            /\ \A e \in 1 .. Len(log_data) :
                   log_data[e].playlist_id # fetched[i].playlist_id
            /\ \A b \in 1 .. Len(run_posts) :
                   \A u \in 1 .. Len(run_posts[b].uris) :
                       run_posts[b].uris[u] \notin UrisOf(fetched[i].playlist_id)

(***************************************************************************)
(* get_user_token and refresh_access_token (track_new_songs_oauth.py)      *)
(***************************************************************************)
MaxTokenCalls == 3   \* get_user_token calls (runs of the script) over a behaviour

\* the access tokens the token endpoint issues, in order
AccessTokens == <<"at1", "at2", "at3", "at4", "at5">>

\* response.get('refresh_token') of the authorization-code grant: a refresh
\* token, or None when the response has none
RefreshTokens == {Null, "rt1", "rt2"}

\* response['expires_in'], in seconds
ExpiresIn == {300, 301}

\* datetime.timedelta(minutes=5)
buffer == 5 * 60 * TicksPerSec

\* no TOKEN_CACHE_FILE
NoCache == [exists |-> FALSE, access_token |-> Null, refresh_token |-> Null,
            expires_at |-> <<>>]

\* line 55 without the 5 minutes
token_valid_until_expiry(expires_at) == now < expires_at

\* line 55: datetime.now() < expires_at - timedelta(minutes=5)
token_valid(expires_at) == now < expires_at - buffer

\* lines 109-115 and 142-148: the cache written after a grant
cache_data(access_token, refresh_token, expires_in) ==
    [exists |-> TRUE, access_token |-> access_token,
     refresh_token |-> refresh_token,
     expires_at |-> isoformat(now + expires_in * TicksPerSec)]

\* lines 133-134 left out: the cache stays
cache_kept == token_cache_file

\* lines 133-134: os.remove(TOKEN_CACHE_FILE)
cache_removed == NoCache

\* refresh_access_token: status answers the refresh-token grant, response is
\* its JSON body [access_token, expires_in]. Returns the value returned and
\* the cache file afterwards
refresh_access_token(refresh_token, status, response) ==
    IF status # 200
    THEN [returned |-> Null, cache |-> cache_removed]
    ELSE [returned |-> response.access_token,
          cache |-> cache_data(response.access_token, refresh_token,
                               response.expires_in)]

\* get_user_token: has_code says whether the pasted redirect URL holds
\* '?code=', auth_status answers the authorization-code grant, refresh_status
\* the refresh-token grant, response is the JSON body of the grant answered
\* 200. Every cache this program writes has the key 'refresh_token' (lines
\* 111, 144), so line 58 holds whenever line 55 does not.
\* path: "cached" (line 56), "refresh" (line 59) or "authorize" (lines 61-117)
get_user_token(has_code, auth_status, refresh_status, response) ==
    IF token_cache_file.exists
       /\ token_valid(fromisoformat(token_cache_file.expires_at))
    THEN [path |-> "cached", exited |-> FALSE,
          returned |-> token_cache_file.access_token,
          cache |-> token_cache_file, grants |-> <<>>]
    ELSE IF token_cache_file.exists
    THEN LET r == refresh_access_token(token_cache_file.refresh_token,
                                       refresh_status, response)
         IN [path |-> "refresh", exited |-> FALSE, returned |-> r.returned,
             cache |-> r.cache,
             grants |-> <<[grant_type |-> "refresh_token",
                           refresh_token |-> token_cache_file.refresh_token,
                           status |-> refresh_status]>>]
    ELSE IF ~has_code
    THEN [path |-> "authorize", exited |-> TRUE, returned |-> Null,
          cache |-> token_cache_file, grants |-> <<>>]
    ELSE IF auth_status # 200
    THEN [path |-> "authorize", exited |-> TRUE, returned |-> Null,
          cache |-> token_cache_file,
          grants |-> <<[grant_type |-> "authorization_code",
                        refresh_token |-> Null, status |-> auth_status]>>]
    ELSE [path |-> "authorize", exited |-> FALSE,
          returned |-> response.access_token,
          cache |-> cache_data(response.access_token, response.refresh_token,
                               response.expires_in),
          grants |-> <<[grant_type |-> "authorization_code",
                        refresh_token |-> Null, status |-> auth_status]>>]

\* the last call was a refresh that the endpoint refused
RefreshFailed(call) == call.path = "refresh" /\ call.returned = Null

\* lines 331-334 of main: access_token = get_user_token(...), in a run of the
\* script. The endpoint refuses a refresh-token grant that carries no token
GetUserToken ==
    /\ token_pc = "ready"
    /\ token_call.n < MaxTokenCalls
    /\ LET valid == token_cache_file.exists
                     /\ token_valid(fromisoformat(token_cache_file.expires_at))
           refreshes == token_cache_file.exists /\ ~valid
           authorizes == ~token_cache_file.exists
       IN
       \E has_code \in IF authorizes THEN BOOLEAN ELSE {TRUE} :
       \E auth_status \in IF authorizes /\ has_code THEN StatusCodes ELSE {200} :
       \E refresh_status \in IF ~refreshes THEN {200}
                              ELSE IF token_cache_file.refresh_token = Null
                                   THEN StatusCodes \ {200}
                                   ELSE StatusCodes :
       \E expires_in \in IF (authorizes /\ has_code /\ auth_status = 200)
                              \/ (refreshes /\ refresh_status = 200)
                           THEN ExpiresIn ELSE {300} :
       \E refresh_token \in IF authorizes /\ has_code /\ auth_status = 200
                              THEN RefreshTokens ELSE {Null} :
        LET response == [access_token |-> AccessTokens[issued + 1],
                         expires_in |-> expires_in,
                         refresh_token |-> refresh_token]
            r == get_user_token(has_code, auth_status, refresh_status, response)
        IN /\ token_cache_file' = r.cache
           /\ issued' = IF r.returned = response.access_token
                         THEN issued + 1 ELSE issued
           /\ token_call' = [n |-> token_call.n + 1,
                              path |-> r.path,
                              exited |-> r.exited,
                              returned |-> r.returned,
                              grants |-> r.grants,
                              cache_before |-> token_cache_file,
                              at |-> now,
                              issued_before |-> issued,
                              after_failed_refresh |-> RefreshFailed(token_call)]
    /\ UNCHANGED <<token_pc, mvars, fvars, bvars, evars, rvars, pvars>>

InitToken ==
    /\ token_cache_file = NoCache
    /\ issued = 0
    /\ token_call = [n |-> 0, path |-> "none", exited |-> FALSE,
                     returned |-> Null, grants |-> <<>>,
                     cache_before |-> NoCache, at |-> 0, issued_before |-> 0,
                     after_failed_refresh |-> FALSE]
    /\ token_pc = "ready"
    /\ IdleMontage
    /\ IdleFilter
    /\ IdleBatch
    /\ IdleMain
    /\ IdleSort
    /\ IdleColor

NextToken ==
    \/ GetUserToken
    \/ Tick

SpecToken == InitToken /\ [][NextToken]_vars

\* the call obtained a token from the token endpoint
IssuedInCall(call) ==
    /\ issued >= call.issued_before + 1
    /\ call.returned = AccessTokens[call.issued_before + 1]

\* C12: when the refresh-token grant is answered with a non-200 status,
\* refresh_access_token removes the token cache file, and the next
\* get_user_token call runs the interactive authorization-code flow: it
\* finds no cache, makes no refresh-token grant, and returns (if it returns)
\* a token issued to it, not the old cached one.
C12_FailedRefreshForcesAuthorization ==
    /\ (token_call.path = "refresh" /\ token_call.grants[1].status # 200) =>
           /\ ~token_cache_file.exists
           /\ token_call.returned # token_call.cache_before.access_token
    /\ token_call.after_failed_refresh =>
           /\ ~token_call.cache_before.exists
           /\ token_call.path = "authorize"
           /\ \A g \in 1 .. Len(token_call.grants) :
                  token_call.grants[g].grant_type = "authorization_code"
           /\ token_call.exited \/ IssuedInCall(token_call)

C12_Witness ==
    /\ token_call.n = 3
    /\ token_call.after_failed_refresh
    /\ token_call.path = "authorize"
    /\ ~token_call.exited
    /\ token_call.returned = "at2"
    /\ token_cache_file.exists

\* more than 5 minutes before the expiry the cache held when the call began
EarlyEnough(call) ==
    call.at + 5 * 60 * TicksPerSec < fromisoformat(call.cache_before.expires_at)

CachedOnlyBeforeTheBuffer ==
    token_call.cache_before.exists =>
        /\ token_call.path = "cached" <=> EarlyEnough(token_call)
        /\ token_call.path = "cached" =>
               /\ token_call.returned = token_call.cache_before.access_token
               /\ token_cache_file = token_call.cache_before
               /\ token_call.grants = <<>>
        /\ ~EarlyEnough(token_call) =>
               /\ token_call.returned # token_call.cache_before.access_token
               /\ token_call.grants =
                      <<[grant_type |-> "refresh_token",
                         refresh_token |-> token_call.cache_before.refresh_token,
                         status |-> token_call.grants[1].status]>>

CacheHoldsTheRefreshedToken ==
    /\ IssuedInCall(token_call)
    /\ token_cache_file.exists
    /\ token_cache_file.access_token = token_call.returned
    /\ token_cache_file.access_token # token_call.cache_before.access_token
    /\ \E e \in ExpiresIn :
           fromisoformat(token_cache_file.expires_at)
               = token_call.at + e * TicksPerSec
    /\ token_cache_file.refresh_token = token_call.cache_before.refresh_token

\* C13 (as stated): the cached token is returned only while now is more than
\* 5 minutes before expires_at; past that point the call performs a
\* refresh-token grant, after which the cache holds the new access token, a
\* new expires_at and the unchanged refresh token.
C13_ExpiredCacheIsRefreshed ==
    /\ CachedOnlyBeforeTheBuffer
    /\ (token_call.cache_before.exists /\ ~EarlyEnough(token_call)) =>
           CacheHoldsTheRefreshedToken

\* C13 (amended): as above, with the cache holding the new access token, the
\* new expires_at and the unchanged refresh token when the grant is answered
\* 200.
C13_ExpiredCacheIsRefreshedOn200 ==
    /\ CachedOnlyBeforeTheBuffer
    /\ (token_call.cache_before.exists /\ ~EarlyEnough(token_call)
          /\ token_call.grants[1].status = 200) =>
           CacheHoldsTheRefreshedToken

C13_Witness ==
    /\ token_call.n = 3
    /\ token_call.path = "refresh"
    /\ token_call.grants[1].status = 200
    /\ token_call.cache_before.access_token = "at1"
    /\ token_call.cache_before.refresh_token = "rt2"
    /\ token_call.at + 5 * 60 * TicksPerSec
          = fromisoformat(token_call.cache_before.expires_at)
    /\ token_cache_file.access_token = "at2"
    /\ token_cache_file.refresh_token = "rt2"

\* C19: whenever get_user_token returns to main without exiting the process,
\* the value returned is an access token, issued by the token endpoint in
\* this call or read from a still valid cache, never None.
C19_ReturnedTokenIsNeverNull ==
    (token_call.n >= 1 /\ ~token_call.exited) =>
        /\ token_call.returned # Null
        /\ \/ IssuedInCall(token_call)
           \/ /\ token_call.cache_before.exists
              /\ EarlyEnough(token_call)
              /\ token_call.returned = token_call.cache_before.access_token

\* C14: the song log is append-only: every step leaves the entries already
\* in the log file unchanged and in place, a save_song_log call adds exactly
\* one entry at the end, and the log length equals the number of runs that
\* found at least one new track.
LogStep ==
    /\ song_log_file.entries
         = SubSeq(song_log_file'.entries, 1, Len(song_log_file.entries))
    /\ Len(song_log_file'.entries) =
         IF pc = "playlists" /\ pc' = "add" /\ all_new_tracks # <<>>
         THEN Len(song_log_file.entries) + 1
         ELSE Len(song_log_file.entries)
    /\ Len(song_log_file'.entries) = runs_with_new'
    /\ song_log_file'.exists <=> Len(song_log_file'.entries) > 0
    /\ song_log_file' # song_log_file =>
         song_log_file'.entries[Len(song_log_file'.entries)].playlists = log_data

C14_LogIsAppendOnly == [][LogStep]_vars

C14_Witness ==
    /\ runs = 2
    /\ pc = "idle"
    /\ Len(song_log_file.entries) = 2
    /\ song_log_file.entries[1].playlists # song_log_file.entries[2].playlists
    /\ song_log_file.entries[1].timestamp # song_log_file.entries[2].timestamp

(***************************************************************************)
(* The script of sort_by_color.py (lines 127-170): the folder is read,     *)
(* the images filtered by shape, sorted by dominant colour and placed.     *)
(***************************************************************************)
MaxFiles == 4        \* files in the input folder

\* what a file of the folder holds: an image of 640 x 640 pixels, an image of
\* another size, or something cv2 cannot decode
FileKinds == {"image640", "image_other", "not_image"}

\* the dominant colours get_dominant_color returns, as sort keys (KMeans
\* starts from a random initialization, so the key is not a function of the
\* image)
Hues == {0, 1}

\* images_per_main_axis=20 (line 163)
script_images_per_main_axis == 20

\* cv2.imread: the decoded array (its shape, and the file it came from), or
\* None when the file cannot be decoded
imread(file) ==
    IF file.kind = "not_image"
    THEN [is_none |-> TRUE, name |-> 0, shape |-> <<>>]
    ELSE [is_none |-> FALSE, name |-> file.name,
          shape |-> IF file.kind = "image640" THEN <<640, 640, 3>>
                    ELSE <<480, 640, 3>>]

\* open_images(folder)
open_images(files) == [i \in 1 .. Len(files) |-> imread(files[i])]

\* the lambda of line 137
shape_is_640(img) == img.shape = <<640, 640, 3>>

\* lines 137-138: list(filter(lambda img: img.shape == (640, 640, 3), IMAGES))
\* and the [:900] slice. None has no attribute shape: the lambda raises
\* AttributeError on it, which nothing catches
filter_images(images) ==
    IF \E i \in 1 .. Len(images) : images[i].is_none
    THEN [raised |-> TRUE, images |-> <<>>]
    ELSE [raised |-> FALSE,
          images |-> py_slice(SelectSeq(images, shape_is_640), 0, 900)]

\* line 154: sorted(range(len(colors)), key=lambda i: colors[i], reverse=True),
\* a stable sort: equal keys keep their order. Indices are 1-based here
sorted_insert(acc, i, key) ==
    LET c == Cardinality({j \in 1 .. Len(acc) : key[acc[j]] >= key[i]})
    IN SubSeq(acc, 1, c) \o <<i>> \o SubSeq(acc, c + 1, Len(acc))

RECURSIVE sorted_reverse(_, _, _)
sorted_reverse(n, key, acc) ==
    IF Len(acc) = n THEN acc
    ELSE sorted_reverse(n, key, sorted_insert(acc, Len(acc) + 1, key))

\* lines 161-170: the montage is built for len(filtered_images) results with
\* by_row=False and add_result is called for every index of sorted_inds
RECURSIVE place_loop(_, _, _, _, _, _)
place_loop(images, inds, cnt, r, c, acc) ==
    IF inds = <<>> THEN acc
    ELSE LET cur == cursor_wrap(FALSE, cnt, script_images_per_main_axis, r, c)
         IN place_loop(images, Tail(inds), cnt + 1, cur.row + 1, cur.col,
                       Append(acc, [image |-> images[Head(inds)].name,
                                    row |-> cur.row, col |-> cur.col]))

\* lines 127-136
OpenImages ==
    /\ sort_pc = "open"
    /\ IMAGES' = open_images(folder)
    /\ sort_pc' = "filter"
    /\ UNCHANGED <<folder, filtered_images, colors, sorted_inds, placed, cvars,
                   mvars, fvars, bvars, evars, rvars, tvars>>

\* lines 137-138; an exception here ends the script
FilterImages ==
    /\ sort_pc = "filter"
    /\ LET r == filter_images(IMAGES)
       IN /\ filtered_images' = r.images
          /\ sort_pc' = IF r.raised THEN "crashed" ELSE "colors"
    /\ UNCHANGED <<folder, IMAGES, colors, sorted_inds, placed, cvars,
                   mvars, fvars, bvars, evars, rvars, tvars>>

\* lines 140-151: one dominant colour per filtered image
DominantColors ==
    /\ sort_pc = "colors"
    /\ \E cs \in [1 .. Len(filtered_images) -> Hues] : colors' = cs
    /\ sort_pc' = "sort"
    /\ UNCHANGED <<folder, IMAGES, filtered_images, sorted_inds, placed, cvars,
                   mvars, fvars, bvars, evars, rvars, tvars>>

\* lines 153-170
SortAndPlace ==
    /\ sort_pc = "sort"
    /\ LET inds == sorted_reverse(Len(colors), colors, <<>>)
       IN /\ sorted_inds' = inds
          /\ placed' = place_loop(filtered_images, inds, 0, 0, 0, <<>>)
    /\ sort_pc' = "done"
    /\ UNCHANGED <<folder, IMAGES, filtered_images, colors, cvars,
                   mvars, fvars, bvars, evars, rvars, tvars>>

InitSort ==
    /\ \E n \in 0 .. MaxFiles : \E kinds \in [1 .. n -> FileKinds] :
           folder = [i \in 1 .. n |-> [name |-> i, kind |-> kinds[i]]]
    /\ IMAGES = <<>>
    /\ filtered_images = <<>>
    /\ colors = <<>>
    /\ sorted_inds = <<>>
    /\ placed = <<>>
    /\ sort_pc = "open"
    /\ IdleColor
    /\ IdleMontage
    /\ IdleFilter
    /\ IdleBatch
    /\ IdleMain
    /\ IdleToken

NextSort ==
    \/ OpenImages
    \/ FilterImages
    \/ DominantColors
    \/ SortAndPlace

SpecSort == InitSort /\ [][NextSort]_vars

\* C15: a file of the input folder that cannot be decoded as an image is
\* skipped: the run does not abort, the filtered list is the decodable
\* 640 x 640 images of the folder in their order, and each of them is placed
\* once.
Is640(file) == file.kind = "image640"

C15_UndecodableFileIsSkipped ==
    /\ sort_pc # "crashed"
    /\ sort_pc \in {"colors", "sort", "done"} =>
           [i \in 1 .. Len(filtered_images) |-> filtered_images[i].name]
             = [i \in 1 .. Len(SelectSeq(folder, Is640)) |->
                   SelectSeq(folder, Is640)[i].name]
    /\ sort_pc = "done" =>
           /\ Len(placed) = Len(filtered_images)
           /\ \A i \in 1 .. Len(filtered_images) :
                  Cardinality({j \in 1 .. Len(placed) :
                                  placed[j].image = filtered_images[i].name}) = 1

(***************************************************************************)
(* get_dominant_color (sort_by_color.py, lines 79-112), from the result of *)
(* the clustering step on: labels is clt.fit_predict(image), one cluster   *)
(* label per pixel, and cluster_centers is clt.cluster_centers_.           *)
(***************************************************************************)
MaxClusters == 3     \* n_clusters ranges over 1 .. MaxClusters
MaxPixels == 4       \* pixels of the (resized) image

\* centroids: points of the 3-channel colour space
Centroids == {<<0, 0, 0>>, <<10, 20, 30>>}

\* Counter(labels): the labels in order of first occurrence, each with the
\* number of its occurrences
RECURSIVE Counter(_, _)
Counter(ls, acc) ==
    IF ls = <<>> THEN acc
    ELSE LET l == Head(ls)
             at == {i \in 1 .. Len(acc) : acc[i].label = l}
         IN IF at = {}
            THEN Counter(Tail(ls), Append(acc, [label |-> l, count |-> 1]))
            ELSE Counter(Tail(ls),
                    [i \in 1 .. Len(acc) |->
                        IF i \in at THEN [acc[i] EXCEPT !.count = @ + 1]
                        ELSE acc[i]])

\* line 110 with the first label counted instead of the most common one
first_counted(label_counts) == label_counts[1]

\* label_counts.most_common(1)[0]: the entry with the largest count, the
\* first such entry in the Counter's order when several have it
most_common_1(label_counts) ==
    LET best == {i \in 1 .. Len(label_counts) :
                    \A j \in 1 .. Len(label_counts) :
                        label_counts[j].count <= label_counts[i].count}
    IN label_counts[CHOOSE i \in best : \A j \in best : i <= j]

\* lines 106-112, from the labels on; label l is row l of cluster_centers_
get_dominant_color(ls, centers) ==
    LET label_counts == Counter(ls, <<>>)
    IN centers[most_common_1(label_counts).label]

InitColor ==
    /\ n_clusters \in 1 .. MaxClusters
    /\ \E n \in 1 .. MaxPixels : labels \in [1 .. n -> 0 .. n_clusters - 1]
    /\ cluster_centers \in [0 .. n_clusters - 1 -> Centroids]
    /\ dominant_color = <<>>
    /\ color_pc = "call"
    /\ IdleSort
    /\ IdleMontage
    /\ IdleFilter
    /\ IdleBatch
    /\ IdleMain
    /\ IdleToken

GetDominantColor ==
    /\ color_pc = "call"
    /\ dominant_color' = get_dominant_color(labels, cluster_centers)
    /\ color_pc' = "done"
    /\ UNCHANGED <<n_clusters, labels, cluster_centers, svars,
                   mvars, fvars, bvars, evars, rvars, tvars>>

NextColor == GetDominantColor

SpecColor == InitColor /\ [][NextColor]_vars

\* the pixels assigned to cluster l
PixelsOf(l) == {i \in 1 .. Len(labels) : labels[i] = l}

\* C16: given the assignment of pixels to the k clusters, get_dominant_color
\* returns the centroid of a cluster that no other cluster exceeds in number
\* of assigned pixels, as a 3-component colour.
C16_CentroidOfALargestCluster ==
    color_pc = "done" =>
        /\ Len(dominant_color) = 3
        /\ \E l \in 0 .. n_clusters - 1 :
               /\ dominant_color = cluster_centers[l]
               /\ \A m \in 0 .. n_clusters - 1 :
                      Cardinality(PixelsOf(m)) <= Cardinality(PixelsOf(l))

C16_Witness ==
    /\ color_pc = "done"
    /\ n_clusters = 3
    /\ labels = <<2, 1, 1, 0>>
    /\ cluster_centers[1] = <<10, 20, 30>>
    /\ cluster_centers[0] = <<0, 0, 0>>
    /\ cluster_centers[2] = <<0, 0, 0>>
    /\ dominant_color = <<10, 20, 30>>

\* the persisted cursor, as the next run will load it
Cursor == fromisoformat(last_run_file.last_run)

\* C17: across the completed runs of main every non-null track added to a
\* source playlist whose reads succeed is returned as new by exactly one run:
\* no track is returned by two runs, and no track is left behind the
\* persisted cursor without having been returned (the filter only returns
\* what is newer than the cursor, and the cursor does not move back), also
\* when the track was added while a run was in progress.
C17_EveryTrackNewExactlyOnce ==
    \A p \in DOMAIN playlists :
        p \notin read_failed =>
            \A e \in EntriesOf(p) :
                e.track # Null =>
                    /\ reported[e.track] <= 1
                    /\ (pc = "idle" /\ last_run_file.exists
                          /\ strptime(e.added_at) <= Cursor) =>
                           reported[e.track] = 1

\* C18: after a completed run every track the run found as new was either
\* sent in a batch that the API accepted, or is still newer than the
\* persisted cursor, so that the next run finds it again.
AcceptedInRun(uri) ==
    \E b \in 1 .. Len(run_posts) :
        /\ run_posts[b].status >= 200 /\ run_posts[b].status <= 299
        /\ \E u \in 1 .. Len(run_posts[b].uris) : run_posts[b].uris[u] = uri

C18_NewTrackAddedOrStillNew ==
    pc = "done" =>
        \A i \in 1 .. Len(all_new_tracks) :
            \/ AcceptedInRun(get_track_uri(all_new_tracks[i]))
            \/ strptime(all_new_tracks[i].added_at) > Cursor

====
